---- MODULE Spec2Model ----
(***************************************************************************)
(* Authentication / authorization core of the DIMO MCP server.             *)
(*                                                                         *)
(*   Spec        the modular server (src/index.ts): startup, the OAuth     *)
(*               callback listener, and one gated tool invocation          *)
(*               (gate -> token exchange -> upstream request) interleaved  *)
(*               with session attaches and on-chain ownership transfers.   *)
(*   SpecJwt     the exported resource-token operation                     *)
(*               getVehicleJwtWithValidation / ensureVehicleJwt applied    *)
(*               to every authState.                                       *)
(*   SpecLegacy  the monolithic server's ensureVehicleJwt with its         *)
(*               vehicleJwts cache.                                        *)
(*   SpecBatch   the batch tools: gates, exchanges and queries fanned out  *)
(*               over several token ids.                                   *)
(*   SpecMint    the kernel signer and the two mint tools.                 *)
(*   SpecOAuth   several authorization listeners side by side.             *)
(*   SpecSession sessions with and without an expiry while time passes.    *)
(***************************************************************************)
EXTENDS Integers, Sequences, FiniteSets, TLC

\* ------------------------------------------------------------------ bounds
MaxResource == 2
MaxCallers == 2
MaxTime == 2
TokenTTL == 1

Resources == 1..MaxResource
\* tools/server-identity.ts LocalOAuthServerSchema: the default listener port.
DefaultPort == 3333
Ports == {DefaultPort}
\* init_oauth takes the port as its argument.
OAuthPorts == {DefaultPort, DefaultPort + 1}
Callers == 1..MaxCallers
Times == 0..MaxTime

\* ------------------------------------------------------- values of the model
\* Wallet addresses as character sequences: two spellings of one address
\* (checksummed / lower-cased) and one different address.
AddrMixed == <<"0", "x", "A", "b">>
AddrLower == <<"0", "x", "a", "b">>
AddrOther == <<"0", "x", "C", "d">>
Addresses == {AddrMixed, AddrLower, AddrOther}

NoAddress == <<"undefined">>   \* walletAddress missing from the callback
NoVehicle == <<"null">>        \* data.vehicle is null: token id not minted
NoEmail == "undefined"         \* email missing from the callback
NoToken == [address |-> <<"none">>]
NoCallback == [token |-> "", walletAddress |-> NoAddress, email |-> NoEmail]
NoJwt == [tokenId |-> 0, expired |-> FALSE]

LowerChar(c) ==
  CASE c = "A" -> "a"
    [] c = "B" -> "b"
    [] c = "C" -> "c"
    [] c = "D" -> "d"
    [] OTHER -> c

toLowerCase(s) == [i \in DOMAIN s |-> LowerChar(s[i])]

\* ------------------------------------------------------------- tool names
CommandTools == {"lock_doors", "unlock_doors", "start_charge", "stop_charge"}
AttestationTools == {"attestation_create_vin", "attestation_create_odometer",
                     "attestation_create_vehicle_health",
                     "attestation_create_vehicle_position"}
QueryTools == {"telemetry_query", "vehicle_data_summary"}
GatedTools == QueryTools \cup CommandTools \cup AttestationTools
PublicTools == {"identity_query", "identity_introspect"}
BatchTools == {"batch_telemetry_query", "batch_vehicle_data_summary"}
AllTools == GatedTools \cup BatchTools \cup PublicTools \cup {"init_oauth"}
DirectJwt == "getVehicleJwtWithValidation"

\* ---------------------------------------------------------- result texts
NotLoggedInText == "You are not logged in, please login."
NotOwnerText == "You are not the owner of this vehicle, sorry."
NotConfiguredText == "Developer JWT not configured. Please set DIMO_DOMAIN and DIMO_PRIVATE_KEY environment variables. Current configuration is missing required credentials for API access."
MissingAuthText == "Request failed due to a missing Authorization header."
JwtFailedPrefix == "Failed to get vehicle JWT: "
DimoNotInitMsg == "DIMO not initialized."
DevJwtMissingMsg == "Developer JWT not configured. Please provide developer JWT credentials."
NotAuthenticatedMsg == "User not authenticated, please login and share a vehicle with me."
UpstreamMsg == "exchange rejected by upstream"

Null == [isError |-> FALSE, thrown |-> FALSE, text |-> <<"null">>]
ErrorResult(parts) == [isError |-> TRUE, thrown |-> FALSE, text |-> parts]
Thrown(parts) == [isError |-> FALSE, thrown |-> TRUE, text |-> parts]
Payload(parts) == [isError |-> FALSE, thrown |-> FALSE, text |-> parts]

VARIABLES env, mainPc, dimo, developerJwt, userOAuthToken, listening,
          owner, inv, lastJwt,
          vehicleJwts, callers, now,
          events, rejected, callback, batch, kernelSigner, mint, flow

vars == <<env, mainPc, dimo, developerJwt, userOAuthToken, listening,
          owner, inv, lastJwt, vehicleJwts, callers, now, events, rejected,
          callback, batch, kernelSigner, mint, flow>>

liveVars == <<env, mainPc, dimo, developerJwt, userOAuthToken, listening,
              owner, inv, lastJwt>>
legacyVars == <<vehicleJwts, callers, now>>
\* What the process has written to its log, and the last tools/call request
\* the server refused because no such tool is registered.
\* callback: the query parameters of the most recent successful callback.
\* batch: the batch tool invocation in flight.
\* kernelSigner: authState.kernelSigner; mint: the mint tool invocation in flight.
\* flow: per port, what the promise returned by init_oauth has settled to.
hostVars == <<events, rejected, callback, batch, kernelSigner, mint, flow>>

IdleInv == [pc |-> "idle", tool |-> "none", tokenId |-> 0, token |-> NoToken,
            queryValid |-> TRUE, everOwned |-> FALSE, lookup |-> "none",
            gate |-> "none", exchange |-> "none", authorization |-> 0,
            trace |-> <<>>, result |-> Null]

\* A batch invocation: per token id the gate's answer, the exchange's answer
\* and the upstream answer ("pending" until it arrives), and the result.
NoBatchResult == [isError |-> FALSE, text |-> "none", summary |-> FALSE,
                  total |-> 0, successful |-> {}, failed |-> {}]
IdleBatch == [pc |-> "idle", tool |-> "none", tokenIds |-> <<>>, token |-> NoToken,
              validation |-> <<>>, jwt |-> <<>>, query |-> <<>>,
              result |-> NoBatchResult]

\* The tokenIds arguments: one or more distinct token ids, ascending.
BatchTokenIds ==
  {ids \in UNION {[1..n -> Resources] : n \in 1..MaxResource} :
     \A i, j \in DOMAIN ids : i < j => ids[i] < ids[j]}

MintTools == {"mint_vehicle_with_vin", "mint_vehicle_with_device_definition"}
IdleMint == [pc |-> "idle", tool |-> "none", token |-> NoToken, owner |-> NoAddress,
             trace |-> <<>>, result |-> Null]

\* The privilege lists the monolithic server's tools ask for.
PrivilegeRequests == {{1, 2, 3, 4, 5}, {4}, {5}}

NoEntry == [privileges |-> {}, exp |-> 0]
IdleCaller == [pc |-> "idle", tokenId |-> 0, privileges |-> {}, hit |-> FALSE,
               stale |-> FALSE, before |-> {}, stored |-> {}, exchanges |-> 0,
               threw |-> FALSE]


\* Date.now(): the clock in milliseconds (now counts seconds).
MsPerSecond == 1000
DateNow == now * MsPerSecond

NoExpiry == -1                 \* expires_at undefined
DefaultSessionMs == 3600000    \* 60 * 60 * 1000

\* ------------------------------------------------------------ pure helpers
\* shared/config.ts getEnvConfig: throws when DIMO_CLIENT_ID is unset.
getEnvConfig(e) ==
  IF ~e.DIMO_CLIENT_ID THEN [threw |-> TRUE, FLEET_MODE |-> FALSE]
  ELSE [threw |-> FALSE, FLEET_MODE |-> e.FLEET_MODE]

\* Variant: the owner is compared as spelled, without lower-casing.
checkVehicleOwnershipCaseSensitive(address, tokenId, response) ==
  [tokenId |-> tokenId,
   isOwner |-> response.kind = "ok" /\ response.vehicle = address,
   error |-> "none"]

\* Variant: a resource token obtained earlier for the vehicle counts as
\* proof of ownership.
checkVehicleOwnershipCached(address, tokenId, response) ==
  [tokenId |-> tokenId,
   isOwner |-> \/ lastJwt.tokenId = tokenId
               \/ /\ response.kind = "ok"
                  /\ response.vehicle # NoVehicle
                  /\ address # NoAddress
                  /\ toLowerCase(response.vehicle) = toLowerCase(address),
   error |-> "none"]

\* helpers/identity-queries.ts checkVehicleOwnership, given the response of
\* the identity query.  response.kind: "ok" (2xx), "non2xx", "throw"
\* (fetch or json() rejected); response.vehicle: data.vehicle.owner or NoVehicle.
checkVehicleOwnership(address, tokenId, response) ==
  IF response.kind = "throw"
  THEN [tokenId |-> tokenId, isOwner |-> FALSE, error |-> "Could not query vehicle ownership"]
  ELSE IF response.kind = "ok"
  THEN IF response.vehicle # NoVehicle
       THEN IF address = NoAddress
            \* undefined.toLowerCase() throws inside the try block
            THEN [tokenId |-> tokenId, isOwner |-> FALSE, error |-> "Could not query vehicle ownership"]
            ELSE [tokenId |-> tokenId,
                  isOwner |-> toLowerCase(response.vehicle) = toLowerCase(address),
                  error |-> "none"]
       ELSE [tokenId |-> tokenId, isOwner |-> FALSE, error |-> "Vehicle not found or no data returned"]
  ELSE [tokenId |-> tokenId, isOwner |-> FALSE, error |-> "Failed to query vehicle ownership"]

\* Variant: fleet mode is consulted before the session.
validateVehicleOperationFleetFirst(token, e, tokenId, response) ==
  IF getEnvConfig(e).FLEET_MODE THEN Null
  ELSE IF token = NoToken THEN ErrorResult(<<NotLoggedInText>>)
  ELSE IF ~checkVehicleOwnership(token.address, tokenId, response).isOwner
       THEN ErrorResult(<<NotOwnerText>>)
       ELSE Null

\* Variant: the session check is missing.
validateVehicleOperationNoSessionCheck(token, e, tokenId, response) ==
  IF ~getEnvConfig(e).FLEET_MODE
     /\ ~checkVehicleOwnership(token.address, tokenId, response).isOwner
  THEN ErrorResult(<<NotOwnerText>>)
  ELSE Null

\* Variant: ownership is enforced whatever FLEET_MODE says.
validateVehicleOperationNoFleet(token, e, tokenId, response) ==
  IF token = NoToken THEN ErrorResult(<<NotLoggedInText>>)
  ELSE IF ~checkVehicleOwnership(token.address, tokenId, response).isOwner
       THEN ErrorResult(<<NotOwnerText>>)
       ELSE Null

\* Variant: the denials are raised as exceptions instead of being returned.
validateVehicleOperationThrows(token, e, tokenId, response) ==
  IF token = NoToken THEN Thrown(<<NotLoggedInText>>)
  ELSE IF getEnvConfig(e).threw THEN Thrown(<<"DIMO_CLIENT_ID environment variable is required">>)
  ELSE IF ~getEnvConfig(e).FLEET_MODE
          /\ ~checkVehicleOwnership(token.address, tokenId, response).isOwner
       THEN Thrown(<<NotOwnerText>>)
       ELSE Null

\* Variant: the ownership lookup has no catch block, so the TypeError of
\* address.toLowerCase() on a missing address escapes the gate.
validateVehicleOperationUncaught(token, e, tokenId, response) ==
  IF token = NoToken THEN ErrorResult(<<NotLoggedInText>>)
  ELSE IF getEnvConfig(e).threw THEN Thrown(<<"DIMO_CLIENT_ID environment variable is required">>)
  ELSE IF token.address = NoAddress /\ response.kind = "ok" /\ response.vehicle # NoVehicle
  THEN Thrown(<<"TypeError">>)
  ELSE IF ~getEnvConfig(e).FLEET_MODE
          /\ ~checkVehicleOwnership(token.address, tokenId, response).isOwner
       THEN ErrorResult(<<NotOwnerText>>)
       ELSE Null

\* Variant: any attached session passes, the answer of the ownership query
\* is not consulted.
validateVehicleOperationTrustsSession(token, e, tokenId, response) ==
  IF token = NoToken THEN ErrorResult(<<NotLoggedInText>>)
  ELSE IF getEnvConfig(e).threw THEN Thrown(<<"DIMO_CLIENT_ID environment variable is required">>)
  ELSE Null

\* Variant: a session whose expires_at has passed counts as no session.
validateVehicleOperationChecksExpiry(token, e, tokenId, response) ==
  IF token = NoToken THEN ErrorResult(<<NotLoggedInText>>)
  ELSE IF token.expires_at # NoExpiry /\ token.expires_at <= DateNow
  THEN ErrorResult(<<NotLoggedInText>>)
  ELSE IF getEnvConfig(e).threw THEN Thrown(<<"DIMO_CLIENT_ID environment variable is required">>)
  ELSE LET ownership == checkVehicleOwnership(token.address, tokenId, response) IN
       IF ~getEnvConfig(e).FLEET_MODE /\ ~ownership.isOwner
       THEN ErrorResult(<<NotOwnerText>>)
       ELSE Null

\* shared/command-helpers validateVehicleOperation: the session check, then
\* the decision taken once the ownership query has answered.
validateVehicleOperation(token, e, tokenId, response) ==
  IF token = NoToken THEN ErrorResult(<<NotLoggedInText>>)
  ELSE IF getEnvConfig(e).threw THEN Thrown(<<"DIMO_CLIENT_ID environment variable is required">>)
  ELSE LET ownership == checkVehicleOwnership(token.address, tokenId, response) IN
       IF ~getEnvConfig(e).FLEET_MODE /\ ~ownership.isOwner
       THEN ErrorResult(<<NotOwnerText>>)
       ELSE Null

\* Variant: the user-session precondition is missing.
ensureVehicleJwtNoSessionCheck(hasDimo, devJwt, token) ==
  IF ~hasDimo THEN DimoNotInitMsg
  ELSE IF ~devJwt THEN DevJwtMissingMsg
  ELSE "exchange"

\* helpers/developer-jwt.ts ensureVehicleJwt up to the exchange request:
\* the message of the error thrown, or "exchange" when the request is issued.
ensureVehicleJwt(hasDimo, devJwt, token) ==
  IF ~hasDimo THEN DimoNotInitMsg
  ELSE IF ~devJwt THEN DevJwtMissingMsg
  ELSE IF token = NoToken THEN NotAuthenticatedMsg
  ELSE "exchange"

\* Variant: the early developerJwt test is missing, so the missing service
\* token surfaces through the catch block.
getVehicleJwtWithValidationNoDevCheck(hasDimo, devJwt, token) ==
  IF ensureVehicleJwt(hasDimo, devJwt, token) # "exchange"
  THEN ErrorResult(<<JwtFailedPrefix, ensureVehicleJwt(hasDimo, devJwt, token)>>)
  ELSE Null

\* shared/command-helpers getVehicleJwtWithValidation up to the exchange
\* request: the structured error returned without any request, or Null when
\* the exchange request has been issued.
getVehicleJwtWithValidation(hasDimo, devJwt, token) ==
  IF ~devJwt THEN ErrorResult(<<NotConfiguredText>>)
  ELSE IF ensureVehicleJwt(hasDimo, devJwt, token) # "exchange"
       THEN ErrorResult(<<JwtFailedPrefix, ensureVehicleJwt(hasDimo, devJwt, token)>>)
       ELSE Null

\* Variant: the token is handed on without looking for headers.Authorization.
jwtResultNoHeaderCheck(outcome, customErrorMessage) ==
  IF outcome = "error" THEN ErrorResult(<<JwtFailedPrefix, UpstreamMsg>>)
  ELSE Null

\* Variant: the catch block answers with a fixed text and drops error.message.
jwtResultGeneric(outcome, customErrorMessage) ==
  IF outcome = "error" THEN ErrorResult(<<"Failed to get vehicle JWT">>)
  ELSE IF outcome = "noAuthorization" THEN ErrorResult(<<customErrorMessage>>)
  ELSE Null

\* getVehicleJwtWithValidation after the exchange answered.  outcome: "jwt"
\* (headers.Authorization present), "noAuthorization", "error" (rejected).
jwtResult(outcome, customErrorMessage) ==
  IF outcome = "error" THEN ErrorResult(<<JwtFailedPrefix, UpstreamMsg>>)
  ELSE IF outcome = "noAuthorization" THEN ErrorResult(<<customErrorMessage>>)
  ELSE Null

\* JSON.parse(atob(token.split('.')[1])): whether the middle segment decodes
\* to a JSON object, and its exp claim in seconds (0 when the claim is
\* missing: the code tests payload.exp for truthiness).
SessionJwts == {"h.exp1.s", "h.noexp.s"}
jwtPayload(token) ==
  CASE token = "h.exp1.s" -> [decodes |-> TRUE, exp |-> 1]
    [] token = "h.noexp.s" -> [decodes |-> TRUE, exp |-> 0]
    [] OTHER -> [decodes |-> FALSE, exp |-> 0]

\* helpers/oauth.ts createDimoToken
createDimoToken(token, walletAddress, email) ==
  LET payload == jwtPayload(token)
      expires_at == IF ~payload.decodes THEN DateNow + DefaultSessionMs
                    ELSE IF payload.exp # 0 THEN payload.exp * MsPerSecond
                    ELSE NoExpiry
  IN [access_token |-> token, token_type |-> "Bearer", address |-> walletAddress,
      email |-> email, created_at |-> DateNow, expires_at |-> expires_at]

\* ------------------------------------------------------------------- Init
Init ==
  /\ env \in [DIMO_CLIENT_ID : BOOLEAN, DIMO_DOMAIN : BOOLEAN,
              DIMO_PRIVATE_KEY : BOOLEAN, FLEET_MODE : BOOLEAN]
  /\ mainPc = "start"
  /\ dimo = FALSE
  /\ developerJwt = FALSE
  /\ userOAuthToken = NoToken
  /\ listening = {}
  /\ owner \in [Resources -> {AddrMixed, AddrOther, NoVehicle}]
  /\ inv = IdleInv
  /\ lastJwt = NoJwt
  /\ vehicleJwts = [r \in Resources |-> NoEntry]
  /\ callers = [c \in Callers |-> IdleCaller]
  /\ now = 0
  /\ events = {}
  /\ rejected = "none"
  /\ callback = NoCallback
  /\ batch = IdleBatch
  /\ kernelSigner = "none"
  /\ mint = IdleMint
  /\ flow = [port \in OAuthPorts |-> "none"]

\* ---------------------------------------------------------------- startup
\* index.ts main(): create the SDK, read the configuration.
MainStart ==
  /\ mainPc = "start"
  /\ dimo' = TRUE
  /\ mainPc' = IF getEnvConfig(env).threw THEN "connectedNoTools" ELSE "acquiring"
  /\ events' = IF getEnvConfig(env).threw THEN {"no_client_id"} ELSE events
  /\ UNCHANGED <<env, developerJwt, userOAuthToken, listening, owner, inv, lastJwt>>
  /\ UNCHANGED legacyVars
  /\ UNCHANGED <<rejected, callback, batch, kernelSigner, mint, flow>>

\* Variant: a failed service-token acquisition ends the process.
MainAcquireFatal(ok) ==
  /\ mainPc = "acquiring"
  /\ ok => (env.DIMO_DOMAIN /\ env.DIMO_PRIVATE_KEY)
  /\ developerJwt' = IF ok THEN TRUE ELSE developerJwt
  /\ mainPc' = IF ok THEN "connected" ELSE "exited"
  /\ events' = events \cup (IF ok THEN {"dimo_dev_jwt_success", "auth_configured"}
                                  ELSE {"dimo_dev_jwt_failed"})
  /\ UNCHANGED <<env, dimo, userOAuthToken, listening, owner, inv, lastJwt>>
  /\ UNCHANGED legacyVars
  /\ UNCHANGED <<rejected, callback, batch, kernelSigner, mint, flow>>

\* index.ts main(): getDeveloperJWT answered; register the tools and connect.
MainAcquire(ok) ==
  /\ mainPc = "acquiring"
  /\ ok => (env.DIMO_DOMAIN /\ env.DIMO_PRIVATE_KEY)
  /\ developerJwt' = IF ok THEN TRUE ELSE developerJwt
  /\ mainPc' = "connected"
  /\ events' = events \cup (IF ok THEN {"dimo_dev_jwt_success", "auth_configured"}
                                  ELSE {"dimo_dev_jwt_failed", "no_dev_jwt"})
  /\ UNCHANGED <<env, dimo, userOAuthToken, listening, owner, inv, lastJwt>>
  /\ UNCHANGED legacyVars
  /\ UNCHANGED <<rejected, callback, batch, kernelSigner, mint, flow>>

\* The tools the server answers for: main() registers them all after the
\* service-token attempt, and none when getEnvConfig threw.
registeredTools == IF mainPc = "connected" THEN AllTools ELSE {}

\* ------------------------------------------------------------------ OAuth
\* Promise resolve: the first settlement stands, later calls change nothing.
resolve(promise, value) == IF promise = "pending" THEN value ELSE promise

\* tools/server-identity.ts init_oauth + helpers/oauth.ts initOAuthServer:
\* the configuration must parse (domain is a required string), then the
\* listener is started and its 'listening' callback resolves the promise
\* the tool returns.
InitOAuth(port) ==
  /\ mainPc = "connected"
  /\ env.DIMO_DOMAIN
  /\ port \notin listening
  /\ listening' = listening \cup {port}
  /\ flow' = [flow EXCEPT ![port] = resolve("pending", "server_started")]
  /\ UNCHANGED <<env, mainPc, dimo, developerJwt, userOAuthToken, owner, inv, lastJwt>>
  /\ UNCHANGED legacyVars
  /\ UNCHANGED <<events, rejected, callback, batch, kernelSigner, mint>>

\* The requests the listener can receive: the path, and the error, token and
\* walletAddress query parameters ("" when the parameter is missing).
CallbackRequests ==
  {[path |-> "/other", error |-> "", token |-> "jwt", walletAddress |-> AddrLower, email |-> NoEmail],
   [path |-> "/", error |-> "", token |-> "", walletAddress |-> NoAddress, email |-> NoEmail],
   [path |-> "/", error |-> "access_denied", token |-> "", walletAddress |-> NoAddress, email |-> NoEmail],
   [path |-> "/", error |-> "access_denied", token |-> "jwt", walletAddress |-> AddrOther, email |-> NoEmail],
   [path |-> "/", error |-> "", token |-> "jwt", walletAddress |-> AddrLower, email |-> "user@dimo.zone"],
   [path |-> "/", error |-> "", token |-> "jwt", walletAddress |-> AddrOther, email |-> NoEmail],
   [path |-> "/", error |-> "", token |-> "jwt", walletAddress |-> NoAddress, email |-> NoEmail]}

\* Variant: the token parameter is looked at before the error parameter.
OAuthCallbackTokenFirst(port, req) ==
  /\ port \in listening
  /\ IF req.path = "/" /\ req.token # ""
     THEN /\ userOAuthToken' = createDimoToken(req.token, req.walletAddress, req.email)
          /\ callback' = [token |-> req.token, walletAddress |-> req.walletAddress,
                          email |-> req.email]
          /\ listening' = listening \ {port}
          /\ flow' = [flow EXCEPT ![port] = resolve(@, "authorized")]
          /\ lastJwt' = NoJwt
     ELSE IF req.path = "/" /\ req.error # ""
     THEN /\ listening' = listening \ {port}
          /\ flow' = [flow EXCEPT ![port] = resolve(@, "failed")]
          /\ UNCHANGED <<userOAuthToken, lastJwt, callback>>
     ELSE UNCHANGED <<userOAuthToken, listening, lastJwt, callback, flow>>
  /\ UNCHANGED <<env, mainPc, dimo, developerJwt, owner, inv>>
  /\ UNCHANGED legacyVars
  /\ UNCHANGED <<events, rejected, batch, kernelSigner, mint>>

\* Variant: the new token is merged over the stored one, so a field the
\* callback does not carry keeps its earlier value.
OAuthCallbackMerge(port, req) ==
  /\ port \in listening
  /\ IF req.path = "/" /\ req.error # ""
     THEN /\ listening' = listening \ {port}
          /\ flow' = [flow EXCEPT ![port] = resolve(@, "failed")]
          /\ UNCHANGED <<userOAuthToken, lastJwt, callback>>
     ELSE IF req.path = "/" /\ req.token # ""
     THEN /\ userOAuthToken' =
               [createDimoToken(req.token, req.walletAddress, req.email) EXCEPT
                  !.email = IF req.email = NoEmail /\ userOAuthToken # NoToken
                            THEN userOAuthToken.email ELSE req.email]
          /\ callback' = [token |-> req.token, walletAddress |-> req.walletAddress,
                          email |-> req.email]
          /\ listening' = listening \ {port}
          /\ flow' = [flow EXCEPT ![port] = resolve(@, "authorized")]
          /\ lastJwt' = NoJwt
     ELSE UNCHANGED <<userOAuthToken, listening, lastJwt, callback, flow>>
  /\ UNCHANGED <<env, mainPc, dimo, developerJwt, owner, inv>>
  /\ UNCHANGED legacyVars
  /\ UNCHANGED <<events, rejected, batch, kernelSigner, mint>>

\* helpers/oauth.ts request handler of the listener, with init_oauth's
\* onTokenReceived.  lastJwt follows the session: it is the resource token
\* last obtained under the attached session.
OAuthCallback(port, req) ==
  /\ port \in listening
  /\ IF req.path = "/" /\ req.error # ""
     THEN /\ listening' = listening \ {port}
          /\ flow' = [flow EXCEPT ![port] = resolve(@, "failed")]
          /\ UNCHANGED <<userOAuthToken, lastJwt, callback>>
     ELSE IF req.path = "/" /\ req.token # ""
     THEN /\ userOAuthToken' = createDimoToken(req.token, req.walletAddress, req.email)
          /\ callback' = [token |-> req.token, walletAddress |-> req.walletAddress,
                          email |-> req.email]
          /\ listening' = listening \ {port}
          /\ flow' = [flow EXCEPT ![port] = resolve(@, "authorized")]
          /\ lastJwt' = NoJwt
     ELSE UNCHANGED <<userOAuthToken, listening, lastJwt, callback, flow>>
  /\ UNCHANGED <<env, mainPc, dimo, developerJwt, owner, inv>>
  /\ UNCHANGED legacyVars
  /\ UNCHANGED <<events, rejected, batch, kernelSigner, mint>>

\* Variant: a flow that times out also discards the stored session.
OAuthTimeoutDetaches(port) ==
  /\ port \in listening
  /\ listening' = listening \ {port}
  /\ flow' = [flow EXCEPT ![port] = resolve(@, "timeout")]
  /\ userOAuthToken' = NoToken
  /\ UNCHANGED <<env, mainPc, dimo, developerJwt, owner, inv, lastJwt>>
  /\ UNCHANGED legacyVars
  /\ UNCHANGED <<events, rejected, callback, batch, kernelSigner, mint>>

\* helpers/oauth.ts the 5 minute timer of the listener: a listener still
\* open is closed and the promise is resolved with the timeout error.
OAuthTimeout(port) ==
  /\ port \in listening
  /\ listening' = listening \ {port}
  /\ flow' = [flow EXCEPT ![port] = resolve(@, "timeout")]
  /\ UNCHANGED <<env, mainPc, dimo, developerJwt, userOAuthToken, owner, inv, lastJwt>>
  /\ UNCHANGED legacyVars
  /\ UNCHANGED <<events, rejected, callback, batch, kernelSigner, mint>>

\* ------------------------------------------------------------ environment
Matches(o, token) ==
  /\ o # NoVehicle
  /\ token.address \in Addresses
  /\ toLowerCase(o) = toLowerCase(token.address)

\* The vehicle NFT is transferred (or minted / burned) on chain.
TransferOwnership(r, newOwner) ==
  /\ owner[r] # newOwner
  /\ owner' = [owner EXCEPT ![r] = newOwner]
  /\ inv' = IF inv.pc # "idle" /\ inv.tokenId = r /\ Matches(newOwner, inv.token)
            THEN [inv EXCEPT !.everOwned = TRUE] ELSE inv
  /\ UNCHANGED <<env, mainPc, dimo, developerJwt, userOAuthToken, listening, lastJwt>>
  /\ UNCHANGED legacyVars
  /\ UNCHANGED hostVars

\* The resource token most recently issued reaches its expiry upstream.
TokenExpires ==
  /\ lastJwt # NoJwt
  /\ ~lastJwt.expired
  /\ lastJwt' = [lastJwt EXCEPT !.expired = TRUE]
  /\ UNCHANGED <<env, mainPc, dimo, developerJwt, userOAuthToken, listening, owner, inv>>
  /\ UNCHANGED legacyVars
  /\ UNCHANGED hostVars


\* ------------------------------------------------- one gated tool invocation
Done(v, result, event) ==
  [v EXCEPT !.pc = "done", !.result = result, !.trace = Append(@, event)]

\* The handler calls getVehicleJwtWithValidation: either a structured error
\* comes back at once or the exchange request is on the wire.
StartJwt(v) ==
  LET pre == getVehicleJwtWithValidation(dimo, developerJwt, userOAuthToken) IN
  IF pre # Null
  THEN Done(v, pre, "jwt_error")
  ELSE [v EXCEPT !.pc = "exchange", !.trace = Append(@, "exchange_request")]

\* Variant: the handler asks for the token whatever the gate returned (the
\* ordering of the superseded tool variants).
AfterGateExchangeFirst(v, gateResult) ==
  StartJwt([v EXCEPT !.gate = IF gateResult = Null THEN "ok" ELSE "denied"])

\* The tool handler from the moment validateVehicleOperation has returned:
\* return the denial, (telemetry_query) parse the query, then ask for the token.
AfterGate(v, gateResult) ==
  IF gateResult # Null
  THEN Done([v EXCEPT !.gate = "denied"], gateResult, "gate_denied")
  ELSE IF v.tool = "telemetry_query" /\ ~v.queryValid
  THEN Done([v EXCEPT !.gate = "ok", !.trace = Append(@, "gate_ok")],
            ErrorResult(<<"Invalid GraphQL query">>), "parse_error")
  ELSE StartJwt([v EXCEPT !.gate = "ok", !.trace = Append(@, "gate_ok")])

\* The result of the last completed resource-token call, as the next call
\* finds it: untouched when the gate denied, none when the call failed.
JwtAfter(v) ==
  IF v.pc = "done" /\ v.trace[Len(v.trace)] = "jwt_error" THEN NoJwt ELSE lastJwt

\* A gated tool is invoked: validateVehicleOperation runs up to its first await.
ToolCall(tool, r, valid) ==
  /\ mainPc = "connected"
  /\ inv.pc = "idle"
  /\ tool \in GatedTools
  /\ (tool # "telemetry_query") => valid
  /\ LET v0 == [IdleInv EXCEPT !.tool = tool, !.tokenId = r, !.token = userOAuthToken,
                               !.queryValid = valid, !.trace = <<"gate_call">>]
         denial == validateVehicleOperation(NoToken, env, r, [kind |-> "throw", vehicle |-> NoVehicle])
     IN inv' = IF userOAuthToken = NoToken
               THEN AfterGate(v0, denial)
               ELSE [v0 EXCEPT !.pc = "ownership",
                               !.everOwned = Matches(owner[r], userOAuthToken),
                               !.trace = Append(@, "ownership_request")]
  /\ lastJwt' = JwtAfter(inv')
  /\ UNCHANGED <<env, mainPc, dimo, developerJwt, userOAuthToken, listening, owner>>
  /\ UNCHANGED legacyVars
  /\ UNCHANGED hostVars

\* The identity API answers the ownership query; the gate decides and the
\* handler runs on to its next await.
OwnershipResponse(kind) ==
  /\ inv.pc = "ownership"
  /\ LET response == [kind |-> kind, vehicle |-> owner[inv.tokenId]]
         gateResult == validateVehicleOperation(inv.token, env, inv.tokenId, response)
     IN inv' = AfterGate([inv EXCEPT !.lookup = kind,
                                     !.trace = Append(@, "ownership_response")], gateResult)
  /\ lastJwt' = JwtAfter(inv')
  /\ UNCHANGED <<env, mainPc, dimo, developerJwt, userOAuthToken, listening, owner>>
  /\ UNCHANGED legacyVars
  /\ UNCHANGED hostVars

customErrorMessage(tool) ==
  IF tool \in CommandTools THEN MissingAuthText
  ELSE IF tool \in {"vehicle_data_summary", DirectJwt}
  THEN "Request failed due to a missing Authorization header. Ensure the vehicle is shared with the developer license and has the required privileges."
  ELSE "GraphQL request failed due to a missing Authorization header. Ensure the vehicle is shared with the developer license and has the required privileges."

\* Variant: a rejected exchange discards the service token, as a refreshing
\* implementation would before acquiring a new one.
ExchangeResponseDropsToken(outcome) ==
  /\ inv.pc = "exchange"
  /\ LET r == jwtResult(outcome, customErrorMessage(inv.tool))
         v == [inv EXCEPT !.lookup = "none", !.exchange = outcome,
                          !.trace = Append(@, "exchange_response")]
     IN IF r # Null
        THEN /\ inv' = Done(v, r, "jwt_error")
             /\ lastJwt' = NoJwt
             /\ developerJwt' = (outcome # "error")
        ELSE /\ inv' = IF inv.tool = DirectJwt
                       THEN Done([v EXCEPT !.authorization = inv.tokenId], Payload(<<"jwt">>), "jwt_returned")
                       ELSE [v EXCEPT !.pc = "upstream", !.authorization = inv.tokenId,
                                      !.trace = Append(@, "upstream_request")]
             /\ lastJwt' = [tokenId |-> inv.tokenId, expired |-> FALSE]
             /\ UNCHANGED developerJwt
  /\ UNCHANGED <<env, mainPc, dimo, userOAuthToken, listening, owner>>
  /\ UNCHANGED legacyVars
  /\ UNCHANGED hostVars

\* The token exchange answers; on success the handler sends the upstream
\* request with the bearer token it has just received.
ExchangeResponse(outcome) ==
  /\ inv.pc = "exchange"
  /\ LET r == jwtResult(outcome, customErrorMessage(inv.tool))
         v == [inv EXCEPT !.lookup = "none", !.exchange = outcome,
                          !.trace = Append(@, "exchange_response")]
     IN IF r # Null
        THEN /\ inv' = Done(v, r, "jwt_error")
             /\ lastJwt' = NoJwt
        ELSE /\ inv' = IF inv.tool = DirectJwt
                       THEN Done([v EXCEPT !.authorization = inv.tokenId], Payload(<<"jwt">>), "jwt_returned")
                       ELSE [v EXCEPT !.pc = "upstream", !.authorization = inv.tokenId,
                                      !.trace = Append(@, "upstream_request")]
             /\ lastJwt' = [tokenId |-> inv.tokenId, expired |-> FALSE]
  /\ UNCHANGED <<env, mainPc, dimo, developerJwt, userOAuthToken, listening, owner>>
  /\ UNCHANGED legacyVars
  /\ UNCHANGED hostVars

\* What each tool makes of the upstream answer.  response: "ok", "errors"
\* (2xx with GraphQL errors), "non2xx", "throw" (network error, bad JSON).
upstreamResult(tool, response) ==
  IF tool \in CommandTools
  THEN CASE response = "non2xx" -> ErrorResult(<<"Request failed: ", "statusText", "body">>)
         [] response = "throw" -> Thrown(<<"Failed to execute command: ", "error">>)
         [] OTHER -> Payload(<<"data">>)
  ELSE IF tool = "telemetry_query"
  THEN CASE response = "non2xx" -> ErrorResult(<<"GraphQL request failed: ", "statusText", "body">>)
         [] response = "errors" -> ErrorResult(<<"The GraphQL response has errors", "data">>)
         [] response = "throw" -> Thrown(<<"Failed to execute GraphQL query: ", "error">>)
         [] OTHER -> Payload(<<"data">>)
  ELSE IF tool = "vehicle_data_summary"
  THEN CASE response = "non2xx" -> Payload(<<"body">>)
         [] response = "errors" -> ErrorResult(<<"GraphQL errors in data summary query: ", "data">>)
         [] response = "throw" -> Thrown(<<"Failed to get vehicle data summary: ", "error">>)
         [] OTHER -> Payload(<<"data">>)
  ELSE IF tool = "identity_query"
  THEN CASE response = "non2xx" -> ErrorResult(<<"GraphQL request failed: ", "statusText", "body">>)
         [] response = "errors" -> ErrorResult(<<"The GraphQL response has errors", "data">>)
         [] response = "throw" -> Thrown(<<"Failed to execute GraphQL query: ", "error">>)
         [] OTHER -> Payload(<<"data">>)
  ELSE IF tool = "identity_introspect"
  THEN CASE response \in {"throw", "non2xx"} -> Thrown(<<"error">>)
         [] OTHER -> Payload(<<"schema">>)
  ELSE CASE response \in {"throw", "non2xx"} -> Thrown(<<"error">>)
         [] OTHER -> Payload(<<"attestResult">>)

UpstreamResponse(response) ==
  /\ inv.pc = "upstream"
  /\ inv' = Done(inv, upstreamResult(inv.tool, response), "upstream_response")
  /\ UNCHANGED <<env, mainPc, dimo, developerJwt, userOAuthToken, listening, owner, lastJwt>>
  /\ UNCHANGED legacyVars
  /\ UNCHANGED hostVars

\* identity_query / identity_introspect: no gate and no token; the query is
\* parsed and the request goes to the public identity API.
PublicCall(tool, valid) ==
  /\ tool \in PublicTools \cap registeredTools
  /\ inv.pc = "idle"
  /\ (tool # "identity_query") => valid
  /\ LET v0 == [IdleInv EXCEPT !.tool = tool, !.queryValid = valid] IN
     inv' = IF ~valid
            THEN Done(v0, ErrorResult(<<"Invalid GraphQL query">>), "parse_error")
            ELSE [v0 EXCEPT !.pc = "upstream", !.trace = <<"upstream_request">>]
  /\ UNCHANGED <<env, mainPc, dimo, developerJwt, userOAuthToken, listening, owner, lastJwt>>
  /\ UNCHANGED legacyVars
  /\ UNCHANGED hostVars

\* The host calls a tool the connected server has not registered: the
\* request is refused and no handler runs.
CallUnregistered(tool) ==
  /\ mainPc \in {"connected", "connectedNoTools"}
  /\ tool \in AllTools \ registeredTools
  /\ rejected' = tool
  /\ UNCHANGED <<events, callback, batch, kernelSigner, mint, flow>>
  /\ UNCHANGED liveVars
  /\ UNCHANGED legacyVars

\* The result has been handed to the host; the next invocation may start.
Return ==
  /\ inv.pc = "done"
  /\ inv' = IdleInv
  /\ UNCHANGED <<env, mainPc, dimo, developerJwt, userOAuthToken, listening, owner, lastJwt>>
  /\ UNCHANGED legacyVars
  /\ UNCHANGED hostVars

Next ==
  \/ MainStart
  \/ \E ok \in BOOLEAN : MainAcquire(ok)
  \/ \E port \in Ports : InitOAuth(port)
  \/ \E port \in Ports, req \in CallbackRequests : OAuthCallback(port, req)
  \/ \E port \in Ports : OAuthTimeout(port)
  \/ \E r \in Resources, newOwner \in {AddrMixed, AddrOther, NoVehicle} :
       TransferOwnership(r, newOwner)
  \/ TokenExpires
  \/ \E tool \in GatedTools, r \in Resources, valid \in BOOLEAN : ToolCall(tool, r, valid)
  \/ \E kind \in {"ok", "non2xx", "throw"} : OwnershipResponse(kind)
  \/ \E outcome \in {"jwt", "noAuthorization", "error"} : ExchangeResponse(outcome)
  \/ \E response \in {"ok", "errors", "non2xx", "throw"} : UpstreamResponse(response)
  \/ \E tool \in PublicTools, valid \in BOOLEAN : PublicCall(tool, valid)
  \/ \E tool \in AllTools : CallUnregistered(tool)
  \/ Return

Spec == Init /\ [][Next]_vars

\* ------------------------------------- the resource-token operation, alone
\* getVehicleJwtWithValidation(authState, tokenId) called on the authState as
\* it is, at any moment of the server's life.
JwtCall(r) ==
  /\ inv.pc = "idle"
  /\ inv' = StartJwt([IdleInv EXCEPT !.tool = DirectJwt, !.tokenId = r,
                                     !.token = userOAuthToken, !.trace = <<"jwt_call">>])
  /\ lastJwt' = JwtAfter(inv')
  /\ UNCHANGED <<env, mainPc, dimo, developerJwt, userOAuthToken, listening, owner>>
  /\ UNCHANGED legacyVars
  /\ UNCHANGED hostVars

NextJwt ==
  \/ MainStart
  \/ \E ok \in BOOLEAN : MainAcquire(ok)
  \/ \E port \in Ports : InitOAuth(port)
  \/ \E port \in Ports, req \in CallbackRequests : OAuthCallback(port, req)
  \/ \E port \in Ports : OAuthTimeout(port)
  \/ TokenExpires
  \/ \E r \in Resources : JwtCall(r)
  \/ \E outcome \in {"jwt", "noAuthorization", "error"} : ExchangeResponse(outcome)
  \/ Return

SpecJwt == Init /\ [][NextJwt]_vars

\* ------------------------------------------------------ the batch tools
\* batch_telemetry_query / batch_vehicle_data_summary.
Ids(b) == {b.tokenIds[i] : i \in DOMAIN b.tokenIds}

BatchError(b, text) ==
  [b EXCEPT !.pc = "done",
            !.result = [NoBatchResult EXCEPT !.isError = TRUE, !.text = text]]

\* Variant: the queries are collected with Promise.all, so one rejected
\* query rejects the whole call.
BatchCombinedFailFast(b) ==
  IF \E r \in Ids(b) : b.query[r] \in {"non2xx", "throw"}
  THEN BatchError(b, "Failed to execute batch queries")
  ELSE [b EXCEPT !.pc = "done",
                 !.result = [isError |-> FALSE, text |-> "combinedResult", summary |-> TRUE,
                             total |-> Len(b.tokenIds),
                             successful |-> {r \in Ids(b) : b.query[r] = "ok"},
                             failed |-> {r \in Ids(b) : b.query[r] # "ok"}]]

\* Promise.allSettled has settled: the combined result.
BatchCombined(b) ==
  LET successful == {r \in Ids(b) : b.query[r] = "ok"}
      failed == Ids(b) \ successful
  IN [b EXCEPT !.pc = "done",
               !.result = [isError |-> FALSE, text |-> "combinedResult", summary |-> TRUE,
                           total |-> Len(b.tokenIds), successful |-> successful,
                           failed |-> failed]]

\* Every exchange has answered: any error ends the call, otherwise one
\* upstream request per token id is sent.
BatchAfterExchange(b) ==
  IF \E r \in Ids(b) : b.jwt[r] # "jwt"
  THEN BatchError(b, "JWT retrieval failed for n vehicle(s)")
  ELSE [b EXCEPT !.pc = "querying", !.query = [r \in Ids(b) |-> "pending"]]

\* Promise.all of the gates has resolved: any denial ends the call,
\* otherwise getVehicleJwtWithValidation is called for every token id.
BatchAfterValidation(b) ==
  LET pre == getVehicleJwtWithValidation(dimo, developerJwt, userOAuthToken) IN
  IF \E r \in Ids(b) : b.validation[r] # "ok"
  THEN BatchError(b, "Validation failed for n vehicle(s)")
  ELSE IF pre # Null
  THEN BatchError(b, "JWT retrieval failed for n vehicle(s)")
  ELSE [b EXCEPT !.pc = "exchanging", !.jwt = [r \in Ids(b) |-> "pending"]]

\* The handler up to its first await: parse the query (telemetry), then
\* start validateVehicleOperation for every token id.
BatchCall(tool, ids, valid) ==
  /\ tool \in BatchTools \cap registeredTools
  /\ batch.pc = "idle"
  /\ (tool # "batch_telemetry_query") => valid
  /\ LET b0 == [IdleBatch EXCEPT !.tool = tool, !.tokenIds = ids, !.token = userOAuthToken]
     IN batch' =
          IF ~valid THEN BatchError(b0, "Invalid GraphQL query")
          ELSE IF userOAuthToken = NoToken
          THEN BatchAfterValidation([b0 EXCEPT !.validation = [r \in Ids(b0) |-> "NotLoggedIn"]])
          ELSE [b0 EXCEPT !.pc = "validating", !.validation = [r \in Ids(b0) |-> "pending"]]
  /\ UNCHANGED <<events, rejected, callback, kernelSigner, mint, flow>>
  /\ UNCHANGED liveVars
  /\ UNCHANGED legacyVars

\* The identity API answers the ownership query of one token id.
BatchOwnershipResponse(r, kind) ==
  /\ batch.pc = "validating"
  /\ r \in Ids(batch) /\ batch.validation[r] = "pending"
  /\ LET gateResult == validateVehicleOperation(batch.token, env, r,
                                                [kind |-> kind, vehicle |-> owner[r]])
         b == [batch EXCEPT !.validation[r] = IF gateResult = Null THEN "ok" ELSE "NotOwner"]
     IN batch' = IF \E q \in Ids(b) : b.validation[q] = "pending"
                 THEN b ELSE BatchAfterValidation(b)
  /\ UNCHANGED <<events, rejected, callback, kernelSigner, mint, flow>>
  /\ UNCHANGED liveVars
  /\ UNCHANGED legacyVars

\* The token exchange of one token id answers.
BatchExchangeResponse(r, outcome) ==
  /\ batch.pc = "exchanging"
  /\ r \in Ids(batch) /\ batch.jwt[r] = "pending"
  /\ LET b == [batch EXCEPT !.jwt[r] = outcome]
     IN batch' = IF \E q \in Ids(b) : b.jwt[q] = "pending"
                 THEN b ELSE BatchAfterExchange(b)
  /\ UNCHANGED <<events, rejected, callback, kernelSigner, mint, flow>>
  /\ UNCHANGED liveVars
  /\ UNCHANGED legacyVars

\* The upstream request of one token id settles: "ok", "errors" (2xx with
\* GraphQL errors), "non2xx", "throw".
BatchUpstreamResponse(r, response) ==
  /\ batch.pc = "querying"
  /\ r \in Ids(batch) /\ batch.query[r] = "pending"
  /\ LET b == [batch EXCEPT !.query[r] = response]
     IN batch' = IF \E q \in Ids(b) : b.query[q] = "pending"
                 THEN b ELSE BatchCombined(b)
  /\ UNCHANGED <<events, rejected, callback, kernelSigner, mint, flow>>
  /\ UNCHANGED liveVars
  /\ UNCHANGED legacyVars

BatchReturn ==
  /\ batch.pc = "done"
  /\ batch' = IdleBatch
  /\ UNCHANGED <<events, rejected, callback, kernelSigner, mint, flow>>
  /\ UNCHANGED liveVars
  /\ UNCHANGED legacyVars

NextBatch ==
  \/ MainStart
  \/ \E ok \in BOOLEAN : MainAcquire(ok)
  \/ \E port \in Ports : InitOAuth(port)
  \/ \E port \in Ports, req \in CallbackRequests : OAuthCallback(port, req)
  \/ \E tool \in BatchTools, ids \in BatchTokenIds, valid \in BOOLEAN : BatchCall(tool, ids, valid)
  \/ \E r \in Resources, kind \in {"ok", "non2xx", "throw"} : BatchOwnershipResponse(r, kind)
  \/ \E r \in Resources, outcome \in {"jwt", "noAuthorization", "error"} :
       BatchExchangeResponse(r, outcome)
  \/ \E r \in Resources, response \in {"ok", "errors", "non2xx", "throw"} :
       BatchUpstreamResponse(r, response)
  \/ BatchReturn

SpecBatch == Init /\ [][NextBatch]_vars

\* ------------------------------------------------------- the mint tools
\* helpers/kernel-signer.ts initializeKernelSignerFromEnv.  outcome: "config"
\* (getEnvConfig or newKernelConfig threw), "keyInit" (privateKeyInit
\* rejected, after the signer object was stored), "ok".
InitializeKernelSigner(outcome) ==
  /\ kernelSigner = "none"
  /\ getEnvConfig(env).threw => outcome = "config"
  /\ kernelSigner' = CASE outcome = "config" -> "none"
                        [] outcome = "keyInit" -> "constructed"
                        [] OTHER -> "initialised"
  /\ events' = events \cup (IF outcome = "ok" THEN {"kernel_signer_auto_initialized"}
                                               ELSE {"kernel_signer_auto_init_failed"})
  /\ UNCHANGED <<rejected, callback, batch, mint, flow>>
  /\ UNCHANGED liveVars
  /\ UNCHANGED legacyVars

MintFailed(v, prefix, message) ==
  [v EXCEPT !.pc = "done", !.result = ErrorResult(<<prefix, prefix, message>>),
            !.trace = Append(@, "mint_error")]

\* tools/vehicle-minting.ts mintVehicleWithVin up to its first await.
mintVehicleWithVin(v) ==
  LET prefix == "Failed to mint vehicle with VIN: " IN
  IF kernelSigner = "none" THEN MintFailed(v, prefix, "KernelSigner not initialized.")
  ELSE IF ~dimo \/ ~developerJwt
  THEN MintFailed(v, prefix, "DIMO not initialized or developer JWT not configured.")
  ELSE [v EXCEPT !.pc = "lookup", !.trace = Append(@, "decodeVin_request")]

\* tools/vehicle-minting.ts mintVehicleWithDeviceDefinition up to its first await.
mintVehicleWithDeviceDefinition(v) ==
  LET prefix == "Failed to mint vehicle with device definition: " IN
  IF kernelSigner = "none" THEN MintFailed(v, prefix, "KernelSigner not initialized.")
  ELSE IF ~dimo THEN MintFailed(v, prefix, "DIMO not initialized.")
  ELSE IF userOAuthToken = NoToken
  THEN MintFailed(v, prefix, "I dont know who you are, please login so i can get your address..")
  ELSE [v EXCEPT !.pc = "lookup", !.trace = Append(@, "search_request")]

\* The handler of a mint tool is invoked.
MintCall(tool) ==
  /\ mint.pc = "idle"
  /\ LET v0 == [IdleMint EXCEPT !.tool = tool, !.token = userOAuthToken,
                                !.trace = <<"mint_call">>]
     IN mint' = IF tool = "mint_vehicle_with_vin"
                THEN mintVehicleWithVin(v0) ELSE mintVehicleWithDeviceDefinition(v0)
  /\ UNCHANGED <<events, rejected, callback, batch, kernelSigner, flow>>
  /\ UNCHANGED liveVars
  /\ UNCHANGED legacyVars

\* decodeVin / devicedefinitions.search answers; with a definition in hand
\* the mint transaction is submitted, to the signer's own wallet (VIN) or to
\* the address of the session attached at that moment.
MintLookupResponse(found) ==
  /\ mint.pc = "lookup"
  /\ LET prefix == IF mint.tool = "mint_vehicle_with_vin"
                   THEN "Failed to mint vehicle with VIN: "
                   ELSE "Failed to mint vehicle with device definition: "
     IN mint' = IF ~found
                THEN MintFailed(mint, prefix, "no device definition")
                ELSE [mint EXCEPT !.pc = "minting",
                                  !.owner = IF mint.tool = "mint_vehicle_with_vin"
                                            THEN <<"signer">> ELSE userOAuthToken.address,
                                  !.trace = Append(@, "mint_submitted")]
  /\ UNCHANGED <<events, rejected, callback, batch, kernelSigner, flow>>
  /\ UNCHANGED liveVars
  /\ UNCHANGED legacyVars

\* The bundler answers and the receipt arrives, or an error is thrown on the way.
MintResponse(ok) ==
  /\ mint.pc = "minting"
  /\ LET prefix == IF mint.tool = "mint_vehicle_with_vin"
                   THEN "Failed to mint vehicle with VIN: "
                   ELSE "Failed to mint vehicle with device definition: "
     IN mint' = IF ok
                THEN [mint EXCEPT !.pc = "done", !.result = Payload(<<"minted">>),
                                  !.trace = Append(@, "mint_receipt")]
                ELSE MintFailed(mint, prefix, "transaction failed")
  /\ UNCHANGED <<events, rejected, callback, batch, kernelSigner, flow>>
  /\ UNCHANGED liveVars
  /\ UNCHANGED legacyVars

MintReturn ==
  /\ mint.pc = "done"
  /\ mint' = IdleMint
  /\ UNCHANGED <<events, rejected, callback, batch, kernelSigner, flow>>
  /\ UNCHANGED liveVars
  /\ UNCHANGED legacyVars

NextMint ==
  \/ MainStart
  \/ \E ok \in BOOLEAN : MainAcquire(ok)
  \/ \E port \in Ports : InitOAuth(port)
  \/ \E port \in Ports, req \in CallbackRequests : OAuthCallback(port, req)
  \/ \E outcome \in {"config", "keyInit", "ok"} : InitializeKernelSigner(outcome)
  \/ \E tool \in MintTools : MintCall(tool)
  \/ \E found \in BOOLEAN : MintLookupResponse(found)
  \/ \E ok \in BOOLEAN : MintResponse(ok)
  \/ MintReturn

SpecMint == Init /\ [][NextMint]_vars

\* ------------------------- several authorization listeners side by side
\* Listeners on different ports run concurrently and each closes on its own
\* callback or timer.
NextOAuth ==
  \/ MainStart
  \/ \E ok \in BOOLEAN : MainAcquire(ok)
  \/ \E port \in OAuthPorts : InitOAuth(port)
  \/ \E port \in OAuthPorts, req \in CallbackRequests : OAuthCallback(port, req)
  \/ \E port \in OAuthPorts : OAuthTimeout(port)
  \/ \E r \in Resources : JwtCall(r)
  \/ \E outcome \in {"jwt", "noAuthorization", "error"} : ExchangeResponse(outcome)
  \/ Return

SpecOAuth == Init /\ [][NextOAuth]_vars

\* ------------------------------ the monolithic server and its token cache
InitLegacy ==
  /\ env \in {e \in [DIMO_CLIENT_ID : BOOLEAN, DIMO_DOMAIN : BOOLEAN,
                      DIMO_PRIVATE_KEY : BOOLEAN, FLEET_MODE : BOOLEAN] :
                ~e.FLEET_MODE /\ (e.DIMO_DOMAIN <=> e.DIMO_PRIVATE_KEY)}
  /\ mainPc = "start"
  /\ dimo = FALSE
  /\ developerJwt = FALSE
  /\ userOAuthToken = NoToken
  /\ listening = {}
  /\ owner = [r \in Resources |-> NoVehicle]
  /\ inv = IdleInv
  /\ lastJwt = NoJwt
  /\ vehicleJwts = [r \in Resources |-> NoEntry]
  /\ callers = [c \in Callers |-> IdleCaller]
  /\ now = 0
  /\ events = {}
  /\ rejected = "none"
  /\ callback = NoCallback
  /\ batch = IdleBatch
  /\ kernelSigner = "none"
  /\ mint = IdleMint
  /\ flow = [port \in OAuthPorts |-> "none"]

\* main() of the monolithic server: create the SDK, authenticate when the
\* three credentials are set, connect.
LegacyMain(ok) ==
  /\ mainPc = "start"
  /\ ok => (env.DIMO_CLIENT_ID /\ env.DIMO_DOMAIN /\ env.DIMO_PRIVATE_KEY)
  /\ dimo' = TRUE
  /\ developerJwt' = ok
  /\ mainPc' = "connected"
  /\ UNCHANGED <<env, userOAuthToken, listening, owner, inv, lastJwt>>
  /\ UNCHANGED legacyVars
  /\ UNCHANGED hostVars

\* The cache test of the monolithic ensureVehicleJwt: the entry is reused
\* when it exists and lists every required privilege.
cacheHit(existingJwt, privileges) ==
  /\ existingJwt # NoEntry
  /\ \A p \in privileges : p \in existingJwt.privileges

\* The entry written after an exchange at time t: the token (which expires
\* TokenTTL later) with the privileges that were asked for.
cacheEntry(privileges, t) == [privileges |-> privileges, exp |-> t + TokenTTL]

\* ensureVehicleJwt(tokenId, privileges) of the monolithic server, up to its
\* first await.
LegacyCall(c, r, privileges) ==
  /\ mainPc = "connected"
  /\ callers[c].pc = "idle"
  /\ LET existingJwt == vehicleJwts[r]
         v == [IdleCaller EXCEPT !.tokenId = r, !.privileges = privileges,
                                 !.before = existingJwt.privileges]
     IN callers' = [callers EXCEPT ![c] =
          IF ~dimo \/ ~developerJwt
          THEN [v EXCEPT !.pc = "done", !.threw = TRUE]
          ELSE IF cacheHit(existingJwt, privileges)
          THEN [v EXCEPT !.pc = "done", !.hit = TRUE, !.stale = existingJwt.exp <= now]
          ELSE [v EXCEPT !.pc = "exchange", !.exchanges = 1]]
  /\ UNCHANGED <<vehicleJwts, now>>
  /\ UNCHANGED liveVars
  /\ UNCHANGED hostVars

\* Variant: the new token is merged into the entry found in the map, keeping
\* the privileges an earlier writer stored.
LegacyExchangeResponseMerge(c, ok) ==
  /\ callers[c].pc = "exchange"
  /\ IF ok
     THEN /\ vehicleJwts' = [vehicleJwts EXCEPT ![callers[c].tokenId] =
                               [cacheEntry(callers[c].privileges, now) EXCEPT
                                  !.privileges = @ \cup vehicleJwts[callers[c].tokenId].privileges]]
          /\ callers' = [callers EXCEPT ![c].pc = "done",
                                        ![c].stored = vehicleJwts'[callers[c].tokenId].privileges]
     ELSE /\ callers' = [callers EXCEPT ![c].pc = "done", ![c].threw = TRUE]
          /\ UNCHANGED vehicleJwts
  /\ UNCHANGED now
  /\ UNCHANGED liveVars
  /\ UNCHANGED hostVars

\* The exchange answers: the entry of the token id is replaced.
LegacyExchangeResponse(c, ok) ==
  /\ callers[c].pc = "exchange"
  /\ IF ok
     THEN /\ vehicleJwts' = [vehicleJwts EXCEPT ![callers[c].tokenId] =
                               cacheEntry(callers[c].privileges, now)]
          /\ callers' = [callers EXCEPT ![c].pc = "done",
                                        ![c].stored = vehicleJwts'[callers[c].tokenId].privileges]
     ELSE /\ callers' = [callers EXCEPT ![c].pc = "done", ![c].threw = TRUE]
          /\ UNCHANGED vehicleJwts
  /\ UNCHANGED now
  /\ UNCHANGED liveVars
  /\ UNCHANGED hostVars

LegacyReturn(c) ==
  /\ callers[c].pc = "done"
  /\ callers' = [callers EXCEPT ![c] = IdleCaller]
  /\ UNCHANGED <<vehicleJwts, now>>
  /\ UNCHANGED liveVars
  /\ UNCHANGED hostVars

\* Time passes.
Tick ==
  /\ now < MaxTime
  /\ now' = now + 1
  /\ UNCHANGED <<vehicleJwts, callers>>
  /\ UNCHANGED liveVars
  /\ UNCHANGED hostVars

NextLegacy ==
  \/ \E ok \in BOOLEAN : LegacyMain(ok)
  \/ \E c \in Callers, r \in Resources, privileges \in PrivilegeRequests :
       LegacyCall(c, r, privileges)
  \/ \E c \in Callers, ok \in BOOLEAN : LegacyExchangeResponse(c, ok)
  \/ \E c \in Callers : LegacyReturn(c)
  \/ Tick

SpecLegacy == InitLegacy /\ [][NextLegacy]_vars


\* --------------------------------------- sessions and the passing of time
\* The server started with its credentials, receiving callbacks whose token
\* is a JWT with or without an exp claim, while the clock advances.
InitSession ==
  /\ env \in {e \in [DIMO_CLIENT_ID : BOOLEAN, DIMO_DOMAIN : BOOLEAN,
                      DIMO_PRIVATE_KEY : BOOLEAN, FLEET_MODE : BOOLEAN] :
                e.DIMO_CLIENT_ID /\ e.DIMO_DOMAIN /\ e.DIMO_PRIVATE_KEY}
  /\ mainPc = "start"
  /\ dimo = FALSE
  /\ developerJwt = FALSE
  /\ userOAuthToken = NoToken
  /\ listening = {}
  /\ owner \in [Resources -> {AddrMixed, AddrOther}]
  /\ inv = IdleInv
  /\ lastJwt = NoJwt
  /\ vehicleJwts = [r \in Resources |-> NoEntry]
  /\ callers = [c \in Callers |-> IdleCaller]
  /\ now = 0
  /\ events = {}
  /\ rejected = "none"
  /\ callback = NoCallback
  /\ batch = IdleBatch
  /\ kernelSigner = "none"
  /\ mint = IdleMint
  /\ flow = [port \in OAuthPorts |-> "none"]

SessionCallbackRequests ==
  {[path |-> "/", error |-> "", token |-> t, walletAddress |-> AddrLower, email |-> NoEmail] :
     t \in SessionJwts \cup {"jwt"}}

NextSession ==
  \/ MainStart
  \/ \E ok \in BOOLEAN : MainAcquire(ok)
  \/ \E port \in Ports : InitOAuth(port)
  \/ \E port \in Ports, req \in SessionCallbackRequests : OAuthCallback(port, req)
  \/ Tick
  \/ \E tool \in {"lock_doors", "vehicle_data_summary"}, r \in Resources :
       ToolCall(tool, r, TRUE)
  \/ \E kind \in {"ok", "non2xx", "throw"} : OwnershipResponse(kind)
  \/ \E r \in Resources : JwtCall(r)
  \/ \E outcome \in {"jwt", "noAuthorization", "error"} : ExchangeResponse(outcome)
  \/ \E response \in {"ok", "non2xx"} : UpstreamResponse(response)
  \/ Return

SpecSession == InitSession /\ [][NextSession]_vars


\* ================================================================= claims
Has(t, e) == \E i \in DOMAIN t : t[i] = e
Pos(t, e) == IF Has(t, e) THEN CHOOSE i \in DOMAIN t : t[i] = e ELSE 0

Count(t, e) == Cardinality({i \in DOMAIN t : t[i] = e})

NotLoggedIn == ErrorResult(<<NotLoggedInText>>)
NotOwner == ErrorResult(<<NotOwnerText>>)
Gated == inv.pc # "idle" /\ inv.tool \in GatedTools

\* C1: a gated call made while no user session is attached is answered with
\* the structured NotLoggedIn denial, whatever the resource id, FLEET_MODE
\* and the on-chain owner are.
C1_NoSessionNotLoggedIn ==
  (Gated /\ inv.token = NoToken)
    => /\ inv.pc = "done"
       /\ inv.gate = "denied"
       /\ inv.result = NotLoggedIn
       /\ inv.result.isError

C1_Witness ==
  /\ Gated /\ inv.token = NoToken /\ inv.result = NotLoggedIn
  /\ env.FLEET_MODE
  /\ owner[inv.tokenId] = NoVehicle

\* C2: with FLEET_MODE off and a session attached, the step in which the
\* gate decides yields Ok exactly when the identity query answered 2xx with
\* an owner equal to the session address up to letter case; in every other
\* case the call ends with the NotOwner denial.
C2_OkIffLiveOwner ==
  [][(inv.pc = "ownership" /\ inv'.pc # "ownership" /\ ~env.FLEET_MODE)
       => /\ (inv'.gate = "ok")
               <=> (inv'.lookup = "ok" /\ Matches(owner[inv.tokenId], inv.token))
          /\ (inv'.gate # "ok")
               => (inv'.gate = "denied" /\ inv'.pc = "done" /\ inv'.result = NotOwner)]_vars

C2_Witness ==
  /\ Gated /\ ~env.FLEET_MODE
  /\ inv.gate = "ok" /\ inv.lookup = "ok"
  /\ inv.token.address = AddrLower
  /\ owner[inv.tokenId] = AddrMixed

\* C3: with FLEET_MODE on and a session attached the gate returns Ok for
\* every resource id, owner or not and whatever the ownership query
\* answered; and a call denied NotOwner with FLEET_MODE off would be Ok for
\* the same session with FLEET_MODE on, whatever the query answers.
C3_FleetModeOk ==
  /\ (Gated /\ env.FLEET_MODE /\ inv.token # NoToken /\ inv.gate # "none")
       => inv.gate = "ok"
  /\ (Gated /\ ~env.FLEET_MODE /\ inv.pc = "done" /\ inv.result = NotOwner)
       => \A kind \in {"ok", "non2xx", "throw"}, o \in {AddrMixed, AddrOther, NoVehicle} :
            validateVehicleOperation(inv.token, [env EXCEPT !.FLEET_MODE = TRUE],
                                     inv.tokenId, [kind |-> kind, vehicle |-> o]) = Null

C3_Witness ==
  /\ Gated /\ env.FLEET_MODE
  /\ inv.gate = "ok"
  /\ inv.lookup \in {"non2xx", "throw"}
  /\ ~inv.everOwned

\* C4: in every invocation of a gated tool the gate has returned Ok before
\* the token exchange is requested, and the exchange has answered before
\* the upstream request is sent.
C4_GateExchangeUpstreamOrder ==
  Gated =>
    LET t == inv.trace IN
    /\ Has(t, "exchange_request")
         => /\ inv.gate = "ok"
            /\ Has(t, "gate_ok")
            /\ Pos(t, "gate_ok") < Pos(t, "exchange_request")
    /\ Has(t, "upstream_request")
         => /\ Has(t, "exchange_request") /\ Has(t, "exchange_response")
            /\ Pos(t, "exchange_request") < Pos(t, "exchange_response")
            /\ Pos(t, "exchange_response") < Pos(t, "upstream_request")

C4_Witness ==
  /\ Gated /\ inv.pc = "upstream"
  /\ inv.tool = "lock_doors"
  /\ Has(inv.trace, "upstream_request")

\* C5: with the service token present, FLEET_MODE off and no session, a
\* vehicle command ends with the NotLoggedIn denial and sends neither an
\* exchange nor a command request.
C5_CommandWithoutSession ==
  (Gated /\ inv.tool \in CommandTools /\ developerJwt /\ ~env.FLEET_MODE
         /\ inv.token = NoToken)
    => /\ inv.pc = "done"
       /\ inv.result = NotLoggedIn
       /\ ~Has(inv.trace, "upstream_request")
       /\ ~Has(inv.trace, "exchange_request")
       /\ inv.authorization = 0

C5_Witness ==
  /\ Gated /\ inv.tool = "lock_doors" /\ developerJwt /\ ~env.FLEET_MODE
  /\ inv.token = NoToken /\ inv.pc = "done" /\ inv.result = NotLoggedIn

\* C6: with FLEET_MODE off, a gated call during which the on-chain owner of
\* the vehicle was never the session address ends with NotOwner, also when
\* an earlier call of the same session obtained a token for that vehicle.
C6_OwnershipNeverCached ==
  (Gated /\ ~env.FLEET_MODE /\ inv.token # NoToken /\ inv.gate # "none"
         /\ ~inv.everOwned)
    => /\ inv.gate = "denied"
       /\ inv.pc = "done"
       /\ inv.result = NotOwner

C6_Witness ==
  /\ Gated /\ ~env.FLEET_MODE /\ inv.pc = "done" /\ inv.result = NotOwner
  /\ ~inv.everOwned
  /\ lastJwt.tokenId = inv.tokenId
  /\ ~lastJwt.expired


\* C7: a resource-token call that follows a successful call for the same
\* token id, whose token has not expired, is a cache hit: it puts no
\* exchange request on the wire.
C7_SecondCallIsCacheHit ==
  ~(/\ inv.tool = DirectJwt
    /\ inv.pc = "exchange"
    /\ lastJwt.tokenId = inv.tokenId
    /\ ~lastJwt.expired)

\* C8: a call that finds an entry lacking a required privilege performs
\* exactly one exchange, and the entry it writes grants every privilege of
\* the entry it replaced and every privilege it asked for.
C8_ExpansionKeepsPrivileges ==
  \A c \in Callers :
    (callers[c].pc = "done" /\ ~callers[c].hit /\ ~callers[c].threw
       /\ callers[c].before # {})
      => /\ callers[c].exchanges = 1
         /\ (callers[c].before \cup callers[c].privileges) \subseteq callers[c].stored

\* C9: a cache entry whose token has expired is never returned as a hit.
C9_ExpiredEntryNeverHit ==
  \A c \in Callers : callers[c].hit => ~callers[c].stale

\* C10: the resource-token call answers NotConfigured when the service token
\* is missing, with or without a session, and NotAuthenticated when only the
\* session is missing; neither case issues an exchange request, so a request
\* is on the wire only while both credentials are present.
C10_ExchangeNeedsBothCredentials ==
  /\ [](inv.pc = "exchange" => (developerJwt /\ userOAuthToken # NoToken))
  /\ [][(inv.pc = "idle" /\ inv'.pc # "idle" /\ inv'.tool = DirectJwt)
          => /\ ~developerJwt
                  => /\ inv'.pc = "done"
                     /\ inv'.result = ErrorResult(<<NotConfiguredText>>)
                     /\ ~Has(inv'.trace, "exchange_request")
             /\ (developerJwt /\ userOAuthToken = NoToken)
                  => /\ inv'.pc = "done"
                     /\ inv'.result = ErrorResult(<<JwtFailedPrefix, NotAuthenticatedMsg>>)
                     /\ ~Has(inv'.trace, "exchange_request")
             /\ (developerJwt /\ userOAuthToken # NoToken)
                  => inv'.pc = "exchange"]_vars

C10_Witness ==
  /\ inv.tool = DirectJwt /\ inv.pc = "done"
  /\ developerJwt /\ userOAuthToken = NoToken
  /\ inv.result = ErrorResult(<<JwtFailedPrefix, NotAuthenticatedMsg>>)

\* C11: when the token exchange of a gated invocation is rejected, the
\* invocation has made exactly one exchange request, ends with a structured
\* error whose text carries the upstream message, and sends no upstream
\* request.
C11_ExchangeFailureSurfaced ==
  (Gated /\ inv.exchange = "error")
    => /\ inv.pc = "done"
       /\ inv.result.isError /\ ~inv.result.thrown
       /\ Has(inv.result.text, UpstreamMsg)
       /\ inv.result = ErrorResult(<<JwtFailedPrefix, UpstreamMsg>>)
       /\ Count(inv.trace, "exchange_request") = 1
       /\ Count(inv.trace, "exchange_response") = 1
       /\ ~Has(inv.trace, "upstream_request")
       /\ inv.authorization = 0

C11_Witness ==
  /\ Gated /\ inv.exchange = "error" /\ inv.pc = "done"
  /\ inv.tool = "telemetry_query"
  /\ Has(inv.result.text, UpstreamMsg)

NotConfigured == ErrorResult(<<NotConfiguredText>>)

\* C12 (as stated): once startup has ended without a service token, every
\* completed call of a resource-scoped tool carries the NotConfigured denial.
C12_AnyCallNotConfigured ==
  (Gated /\ ~developerJwt /\ inv.pc = "done") => inv.result = NotConfigured

\* C12 (amended): once startup has ended without a service token, a call of
\* a resource-scoped tool whose gate returned Ok (and, for telemetry_query,
\* whose query parses) ends with the NotConfigured denial and sends neither an
\* exchange nor an upstream request; a call the gate denied ends with the
\* gate's NotLoggedIn or NotOwner denial instead.
C12_NotConfiguredAfterGate ==
  (Gated /\ ~developerJwt) =>
    /\ (inv.gate = "ok" /\ ~Has(inv.trace, "parse_error"))
         => /\ inv.pc = "done"
            /\ inv.result = NotConfigured
            /\ ~Has(inv.trace, "exchange_request")
            /\ ~Has(inv.trace, "upstream_request")
    /\ inv.gate = "denied"
         => /\ inv.pc = "done"
            /\ inv.result \in {NotLoggedIn, NotOwner}
            /\ inv.result = NotLoggedIn <=> inv.token = NoToken

C12_Witness ==
  /\ Gated /\ ~developerJwt /\ inv.gate = "ok" /\ inv.pc = "done"
  /\ inv.tool = "attestation_create_vin"
  /\ inv.result = NotConfigured
  /\ ~env.DIMO_PRIVATE_KEY

\* C13: after a start-up without DIMO_CLIENT_ID the connected server still
\* has identity_query and identity_introspect registered, and refuses no
\* call of them.
C13_PublicToolsSurviveConfigError ==
  (mainPc \in {"connected", "connectedNoTools"})
    => /\ PublicTools \subseteq registeredTools
       /\ rejected \notin PublicTools

\* C14: a failed service-token acquisition is logged (dimo_dev_jwt_failed),
\* leaves developerJwt absent, does not end the process, and the server
\* connects with every tool registered, so no call is refused; and a start-up
\* that connects with tools but without a service token has logged the failure.
C14_AcquisitionFailureNonFatal ==
  /\ ("dimo_dev_jwt_failed" \in events)
       => /\ mainPc = "connected"
          /\ ~developerJwt
          /\ registeredTools = AllTools
          /\ rejected = "none"
          /\ "no_dev_jwt" \in events
          /\ "dimo_dev_jwt_success" \notin events
  /\ (mainPc = "connected" /\ ~developerJwt) => "dimo_dev_jwt_failed" \in events
  /\ (mainPc = "acquiring") => events = {}

C14_Witness ==
  /\ "dimo_dev_jwt_failed" \in events
  /\ env.DIMO_DOMAIN /\ env.DIMO_PRIVATE_KEY
  /\ inv.tool = "identity_query" /\ inv.pc = "done"
  /\ inv.result = Payload(<<"data">>)

\* C15: the service token is absent until start-up stores it, which happens
\* at most once, in the step that ends the acquisition; once start-up has
\* ended (with or without a token) no step of any tool, callback or timer
\* changes authState.developerJwt or the start-up state.
C15_ServiceTokenFixedAfterStartup ==
  [][/\ (mainPc = "start")
          => /\ ~developerJwt /\ ~developerJwt'
             /\ mainPc' \in {"start", "acquiring", "connectedNoTools"}
     /\ (mainPc = "acquiring")
          => /\ ~developerJwt
             /\ mainPc' \in {"acquiring", "connected"}
             /\ developerJwt' => mainPc' = "connected"
     /\ (mainPc \in {"connected", "connectedNoTools"})
          => /\ developerJwt' = developerJwt
             /\ mainPc' = mainPc
     /\ (mainPc' = "connectedNoTools") => ~developerJwt']_vars

C15_Witness ==
  /\ mainPc = "connected" /\ developerJwt
  /\ userOAuthToken # NoToken
  /\ inv.pc = "done" /\ inv.exchange = "error"
  /\ listening # {}

\* C16: the one stored session is exactly what the most recent successful
\* callback carried (token, wallet address, email), on whichever listener it
\* arrived, with nothing kept from an earlier session; before the first
\* successful callback there is no session.
C16_SessionIsLastCallback ==
  IF callback = NoCallback
  THEN userOAuthToken = NoToken
  ELSE /\ DOMAIN userOAuthToken = {"access_token", "token_type", "address", "email",
                                   "created_at", "expires_at"}
       /\ userOAuthToken.access_token = callback.token
       /\ userOAuthToken.address = callback.walletAddress
       /\ userOAuthToken.email = callback.email

C16_Witness ==
  /\ inv.pc # "idle"
  /\ inv.token # NoToken
  /\ inv.token.address = AddrLower /\ inv.token.email = "user@dimo.zone"
  /\ userOAuthToken.address = AddrOther /\ userOAuthToken.email = NoEmail
  /\ callback.walletAddress = AddrOther
  /\ listening # {}

\* C17: a batch in which some token ids pass the ownership gate (or the
\* exchange) and others fail it ends with the combined result: total is the
\* number of token ids, every token id is listed as successful or failed,
\* and the ones that failed the gate or the exchange are among the failed.
C17_BatchPartialFailure ==
  (/\ batch.pc = "done"
   /\ batch.validation # <<>>
   /\ \E r \in Ids(batch) : batch.validation[r] = "ok"
   /\ \/ \E q \in Ids(batch) : batch.validation[q] = "NotOwner"
      \/ batch.jwt # <<>> /\ \E q \in Ids(batch) : batch.jwt[q] \in {"error", "noAuthorization"})
    => /\ ~batch.result.isError
       /\ batch.result.summary
       /\ batch.result.total = Len(batch.tokenIds)
       /\ batch.result.successful \cup batch.result.failed = Ids(batch)
       /\ \A q \in Ids(batch) :
            (batch.validation[q] # "ok") => q \in batch.result.failed

Last(t) == t[Len(t)]

\* C18: a gated invocation that ends at the gate or at the resource-token
\* call ends with a returned isError result (NotLoggedIn, NotOwner,
\* NotConfigured, or a token failure text), never with an exception; an
\* exception leaves a gated handler only after its upstream request.  And
\* for every authState and ownership answer the two helpers yield Ok or an
\* isError result.
C18_DenialsAreReturned ==
  /\ (Gated /\ inv.pc = "done" /\ Last(inv.trace) \in {"gate_denied", "jwt_error"})
       => /\ inv.result.isError /\ ~inv.result.thrown
          /\ inv.result \in {NotLoggedIn, NotOwner, NotConfigured,
                              ErrorResult(<<JwtFailedPrefix, UpstreamMsg>>),
                              ErrorResult(<<JwtFailedPrefix, NotAuthenticatedMsg>>),
                              ErrorResult(<<customErrorMessage(inv.tool)>>)}
  /\ (Gated /\ inv.result.thrown) => Last(inv.trace) = "upstream_response"
  /\ (mainPc = "connected")
       => /\ \A token \in {NoToken, userOAuthToken}, r \in Resources,
                kind \in {"ok", "non2xx", "throw"} :
               LET g == validateVehicleOperation(token, env, r,
                                                 [kind |-> kind, vehicle |-> owner[r]])
               IN g = Null \/ (g.isError /\ ~g.thrown)
          /\ \A devJwt \in BOOLEAN, token \in {NoToken, userOAuthToken} :
               LET j == getVehicleJwtWithValidation(dimo, devJwt, token)
               IN j = Null \/ (j.isError /\ ~j.thrown)

C18_Witness ==
  /\ Gated /\ inv.pc = "done"
  /\ inv.exchange = "noAuthorization"
  /\ inv.result = ErrorResult(<<customErrorMessage(inv.tool)>>)
  /\ inv.tool = "vehicle_data_summary"

\* C19: a mint tool runs the gate first: a mint transaction is submitted
\* only by an invocation that started with a session attached and whose
\* gate returned Ok.
C19_MintRunsGateFirst ==
  (mint.pc # "idle" /\ Has(mint.trace, "mint_submitted"))
    => /\ mint.token # NoToken
       /\ Has(mint.trace, "gate_ok")

\* C20: when the 5 minute timer closes a listener that is still open, the
\* listener stops listening and the authorization flow started on that port
\* has the timeout error as its result.
C20_TimeoutReported ==
  [][\A port \in OAuthPorts :
       OAuthTimeout(port) => (port \notin listening' /\ flow'[port] = "timeout")]_vars

\* C21: whenever the upstream request of a query or command tool is answered
\* with a non-2xx status, the invocation ends with a returned error result
\* whose text carries the status text and the raw body; the body is never
\* handed back as a successful payload.
C21_Non2xxIsTransportError ==
  [][(UpstreamResponse("non2xx") /\ inv.tool \in QueryTools \cup CommandTools)
       => /\ inv'.pc = "done"
          /\ inv'.result.isError /\ ~inv'.result.thrown
          /\ Has(inv'.result.text, "statusText")
          /\ Has(inv'.result.text, "body")]_vars

\* C22: with FLEET_MODE on and a session attached the gate returns Ok
\* without sending any ownership query to the identity API.
C22_FleetModeSkipsOwnershipQuery ==
  (Gated /\ env.FLEET_MODE /\ inv.token # NoToken)
    => /\ inv.gate = "ok"
       /\ ~Has(inv.trace, "ownership_request")
       /\ inv.lookup = "none"

\* C23: requests for one token id that are in flight together and all missed
\* the cache each perform their own exchange and each return a token; every
\* exchange that completes replaces the entry of its token id by exactly the
\* entry of the completing request (its privileges, nothing merged from the
\* entry found there) and leaves every other entry alone, and nothing else
\* writes the cache: after the requests have completed the entry is the one
\* of the request that completed last.
C23_LastWriterWins ==
  [][/\ \A c \in Callers :
          (callers[c].pc = "exchange" /\ callers'[c].pc = "done" /\ ~callers'[c].threw)
            => /\ callers'[c].exchanges = 1
               /\ vehicleJwts'[callers[c].tokenId].privileges = callers[c].privileges
               /\ vehicleJwts'[callers[c].tokenId].exp = now + TokenTTL
               /\ \A q \in Resources \ {callers[c].tokenId} : vehicleJwts'[q] = vehicleJwts[q]
     /\ \A c \in Callers :
          (callers[c].pc = "idle" /\ callers'[c].pc # "idle" /\ dimo /\ developerJwt
             /\ ~(callers'[c].privileges \subseteq vehicleJwts[callers'[c].tokenId].privileges))
            => /\ callers'[c].pc = "exchange"
               /\ callers'[c].exchanges = 1
     /\ (vehicleJwts' # vehicleJwts)
          => \E c \in Callers :
               callers[c].pc = "exchange" /\ callers'[c].pc = "done" /\ ~callers'[c].threw]_vars

\* Two requests for one token id both found no entry, both exchanged, and
\* the entry is the one of the second to complete.
C23_Witness ==
  \E c, d \in Callers :
    /\ c # d
    /\ callers[c].pc = "done" /\ callers[d].pc = "done"
    /\ callers[c].tokenId = callers[d].tokenId
    /\ callers[c].before = {} /\ callers[d].before = {}
    /\ callers[c].exchanges = 1 /\ callers[d].exchanges = 1
    /\ ~callers[c].threw /\ ~callers[d].threw
    /\ callers[c].stored = {4} /\ callers[d].stored = {5}
    /\ vehicleJwts[callers[c].tokenId].privileges = {5}

\* C24: no step detaches the session: once authState.userOAuthToken is set
\* it is set in every later state, whatever tool runs and however a later
\* authorization flow ends (error callback, timeout, unrelated request); the
\* stored session changes only in the step of a callback that carries a
\* token and no error, and then it is that callback's session.
C24_SessionNeverDetached ==
  [][/\ (userOAuthToken # NoToken) => (userOAuthToken' # NoToken)
     /\ (userOAuthToken' # userOAuthToken)
          => \E port \in listening, req \in CallbackRequests :
               /\ req.path = "/" /\ req.error = "" /\ req.token # ""
               /\ userOAuthToken' = createDimoToken(req.token, req.walletAddress, req.email)
               /\ port \notin listening']_vars

\* A session is attached, a resource-token call made under it has failed and
\* a later authorization flow is still open, about to end by error or timeout.
C24_Witness ==
  /\ userOAuthToken # NoToken
  /\ userOAuthToken.address = AddrOther
  /\ inv.pc = "done" /\ inv.exchange = "error" /\ inv.token = userOAuthToken
  /\ listening = {DefaultPort + 1}
  /\ flow[DefaultPort] = "server_started"

\* A session whose expires_at lay in the past from the moment it was stored.
Expired(token) ==
  /\ token # NoToken
  /\ token.expires_at # NoExpiry
  /\ token.expires_at < token.created_at

\* C25: the session is never tested for expiry.  validateVehicleOperation
\* and the session precondition of ensureVehicleJwt answer the same for the
\* attached session and for any session differing from it only in
\* expires_at / created_at; and an invocation made under a session that had
\* already expired is not answered NotLoggedIn or NotAuthenticated: its gate
\* decides on ownership and FLEET_MODE alone.
C25_NoSessionExpiry ==
  /\ (userOAuthToken # NoToken)
       => \A ea \in {NoExpiry, 0, DateNow, DateNow + DefaultSessionMs},
             ca \in {0, DateNow} :
            LET other == [userOAuthToken EXCEPT !.expires_at = ea, !.created_at = ca] IN
            /\ \A r \in Resources, kind \in {"ok", "non2xx", "throw"} :
                 validateVehicleOperation(other, env, r, [kind |-> kind, vehicle |-> owner[r]])
                   = validateVehicleOperation(userOAuthToken, env, r,
                                              [kind |-> kind, vehicle |-> owner[r]])
            /\ ensureVehicleJwt(dimo, developerJwt, other)
                 = ensureVehicleJwt(dimo, developerJwt, userOAuthToken)
  /\ (inv.pc # "idle" /\ Expired(inv.token))
       => /\ inv.result # NotLoggedIn
          /\ inv.result # ErrorResult(<<JwtFailedPrefix, NotAuthenticatedMsg>>)
          /\ (inv.tool \in GatedTools /\ inv.gate = "denied")
               => (~env.FLEET_MODE /\ inv.result = NotOwner
                     /\ ~(inv.lookup = "ok" /\ Matches(owner[inv.tokenId], inv.token)))
          /\ (inv.tool \in GatedTools /\ inv.gate = "ok" /\ ~env.FLEET_MODE)
               => Matches(owner[inv.tokenId], inv.token)
  /\ (inv.pc = "exchange" /\ inv.tool = DirectJwt) => userOAuthToken # NoToken

C25_Witness ==
  /\ Gated /\ Expired(inv.token) /\ inv.token = userOAuthToken
  /\ DateNow > inv.token.expires_at
  /\ ~env.FLEET_MODE
  /\ inv.pc = "upstream"

\* C26: a batch call that has sent its queries ends with the combined
\* result: total is the number of token ids asked for, successful + failed =
\* total, every token id is in exactly one of results and errors, and a token
\* id whose query failed (non-2xx, thrown, GraphQL errors) is under errors
\* while every token id whose query succeeded stays under results.
C26_BatchSummaryPartition ==
  (batch.pc = "done" /\ batch.query # <<>>)
    => /\ batch.result.summary /\ ~batch.result.isError
       /\ batch.result.total = Len(batch.tokenIds)
       /\ Cardinality(batch.result.successful) + Cardinality(batch.result.failed)
            = batch.result.total
       /\ batch.result.successful \cap batch.result.failed = {}
       /\ batch.result.successful \cup batch.result.failed = Ids(batch)
       /\ \A r \in Ids(batch) :
            /\ batch.query[r] \in {"non2xx", "throw", "errors"} => r \in batch.result.failed
            /\ batch.query[r] = "ok" => r \in batch.result.successful

C26_Witness ==
  /\ batch.pc = "done" /\ batch.result.summary
  /\ batch.tool = "batch_vehicle_data_summary"
  /\ Len(batch.tokenIds) = MaxResource
  /\ \E r, q \in Ids(batch) :
       /\ batch.query[r] = "non2xx" /\ r \in batch.result.failed
       /\ batch.query[q] = "ok" /\ q \in batch.result.successful

\* The step puts the event on the trace of the invocation.
Issued(e) == ~Has(inv.trace, e) /\ Has(inv'.trace, e)

\* C27 (as stated): with FLEET_MODE off, whenever a gated invocation issues
\* its exchange request or its upstream request, the session attached at
\* that moment is the session that passed the ownership check of the
\* invocation.
C27_RequestUnderGateSession ==
  [][(/\ ~env.FLEET_MODE
      /\ inv'.tool \in GatedTools
      /\ Issued("exchange_request") \/ Issued("upstream_request"))
       => /\ userOAuthToken = inv'.token
          /\ inv'.gate = "ok"]_vars

\* C27 (amended): with FLEET_MODE off, a gated invocation issues its exchange
\* request and its upstream request only after the session that was attached
\* when the gate ran passed the ownership check for the token id, and only
\* while some session is attached; a callback that overwrites the session in
\* between does not stop the invocation, so the session attached at that
\* moment may be another one.
C27_RequestAfterGateSessionPassed ==
  [][(/\ ~env.FLEET_MODE
      /\ inv'.tool \in GatedTools
      /\ Issued("exchange_request") \/ Issued("upstream_request"))
       => /\ inv'.gate = "ok"
          /\ inv'.token # NoToken
          /\ inv'.everOwned
          /\ Has(inv'.trace, "ownership_response")
          /\ userOAuthToken # NoToken
          /\ inv'.tokenId = inv.tokenId /\ inv'.token = inv.token
          /\ Issued("upstream_request") => inv'.authorization = inv.tokenId]_vars

\* The upstream request is on the wire under a session attached after the
\* gate ran, whose address does not own the vehicle.
C27_Witness ==
  /\ Gated /\ ~env.FLEET_MODE
  /\ inv.pc = "upstream"
  /\ userOAuthToken # inv.token
  /\ userOAuthToken.address = AddrOther
  /\ inv.token.address = AddrLower
  /\ owner[inv.tokenId] = AddrMixed

\* C28: no upstream request of a gated query or command tool goes out
\* without a bearer credential.  An exchange that answers without
\* headers.Authorization ends the invocation with the structured
\* missing-header error and no upstream request; an upstream request that is
\* sent follows an exchange of the same invocation that delivered the
\* header, and carries the Authorization obtained for the same token id.
C28_UpstreamCarriesBearer ==
  (Gated /\ inv.tool \in QueryTools \cup CommandTools) =>
    /\ (inv.exchange = "noAuthorization")
         => /\ inv.pc = "done"
            /\ inv.result = ErrorResult(<<customErrorMessage(inv.tool)>>)
            /\ ~Has(inv.trace, "upstream_request")
            /\ inv.authorization = 0
    /\ Has(inv.trace, "upstream_request")
         => /\ inv.exchange = "jwt"
            /\ inv.authorization = inv.tokenId
            /\ Count(inv.trace, "exchange_response") = 1
            /\ Pos(inv.trace, "exchange_response") < Pos(inv.trace, "upstream_request")
    /\ (inv.authorization # 0) => inv.authorization = inv.tokenId

C28_Witness ==
  /\ Gated /\ inv.tool = "telemetry_query"
  /\ inv.exchange = "noAuthorization" /\ inv.pc = "done"
  /\ inv.result.isError
  /\ lastJwt = NoJwt

\* C29: a callback on "/" that carries an error parameter, with or without a
\* token parameter, leaves the stored session as it was (absent or attached)
\* and closes the listener it arrived on, leaving the other listeners open;
\* a callback changes the session only if it carries a token and no error.
C29_ErrorCallbackKeepsSession ==
  [][\A port \in OAuthPorts, req \in CallbackRequests :
       OAuthCallback(port, req)
         => /\ (req.path = "/" /\ req.error # "")
                 => /\ userOAuthToken' = userOAuthToken
                    /\ listening' = listening \ {port}
            /\ (userOAuthToken' # userOAuthToken \/ callback' # callback)
                 => (req.path = "/" /\ req.error = "" /\ req.token # "")]_vars

\* A session is attached, a resource-token call is in flight and both
\* listeners are open to receive a callback with an error.
C29_Witness ==
  /\ userOAuthToken # NoToken
  /\ userOAuthToken.address = AddrLower
  /\ listening = OAuthPorts
  /\ inv.pc = "exchange"

\* C30: a callback with a token and no walletAddress attaches a session
\* whose address is absent.  Under such a session the gate never throws: with
\* FLEET_MODE off it answers NotOwner for every token id, whatever the
\* ownership query answers (isOwner is false in every case), and with
\* FLEET_MODE on it answers Ok for every token id.
C30_SessionWithoutAddress ==
  /\ (callback # NoCallback /\ callback.walletAddress = NoAddress)
       => (userOAuthToken # NoToken /\ userOAuthToken.address = NoAddress)
  /\ (Gated /\ inv.token # NoToken /\ inv.token.address = NoAddress /\ inv.gate # "none")
       => /\ Last(inv.trace) \in {"gate_denied", "gate_ok", "parse_error", "jwt_error",
                                  "exchange_request"}
            => ~inv.result.thrown
          /\ ~env.FLEET_MODE
               => (inv.gate = "denied" /\ inv.pc = "done" /\ inv.result = NotOwner)
          /\ env.FLEET_MODE => inv.gate = "ok"
  /\ (mainPc = "connected" /\ userOAuthToken # NoToken /\ userOAuthToken.address = NoAddress)
       => \A r \in Resources, kind \in {"ok", "non2xx", "throw"},
             o \in {AddrMixed, AddrOther, NoVehicle} :
            LET response == [kind |-> kind, vehicle |-> o]
                g == validateVehicleOperation(userOAuthToken, env, r, response)
            IN /\ ~checkVehicleOwnership(userOAuthToken.address, r, response).isOwner
               /\ g = (IF env.FLEET_MODE THEN Null ELSE NotOwner)

C30_Witness ==
  /\ Gated /\ ~env.FLEET_MODE
  /\ inv.token # NoToken /\ inv.token.address = NoAddress
  /\ inv.lookup = "ok" /\ owner[inv.tokenId] = AddrOther
  /\ inv.pc = "done" /\ inv.result = NotOwner

====
